---- MODULE Spec2Model ----
(***************************************************************************)
(* Model of ccxt-download: the fetch engine of public.py (download_async,  *)
(* candles / trades / funding and their window helpers), the partition     *)
(* naming and time windowing of utilities.py, and load_data.               *)
(*                                                                         *)
(* Time is counted in clock ticks since 00:00 UTC of the epoch date; a day *)
(* has TicksPerDay ticks; a provider record lies on a tick, and timestamps *)
(* resolve the millisecond after it.  One exchange and one directory are   *)
(* modelled, so a partition file name is the record of the remaining parts *)
(* of the name: data type id, data type, date, symbol, incomplete marker.  *)
(***************************************************************************)
EXTENDS Integers, Sequences, FiniteSets, TLC

\* ------------------------------------------------------------------ bounds
\* ticks in one day
TicksPerDay == 2
\* the clock runs from 0 to MaxNow
MaxNow == 2
\* the longest task list a call may build before the process is given up
MaxTasks == 2
\* the most records in one provider page
MaxPage == 2
\* the most pages one window task receives
MaxCalls == 3
\* the most download_async calls in one behaviour
MaxRuns == 2
\* the upstream data set holds at most MaxData records, timestamped -1..MaxTs
MaxData == 2
MaxTs == 2
MaxFiles == 2
MaxRows == 2
SmallRate == 1
\* the machine's time zone lies at most MaxOffset ticks east or west of UTC
MaxOffset == 1
\* a direct call of the candle limit takes timestamps up to tick MaxSpan
MaxSpan == 4
\* a direct call of format_str takes strings of at most MaxLen characters
MaxLen == 3

\* ---------------------------------------------------------------- calendar
\* tick 0 is 00:00 UTC of this date
Epoch == [year |-> 2023, month |-> 3, day |-> 3]

IsLeap(y) == (y % 4 = 0 /\ y % 100 # 0) \/ y % 400 = 0

DaysInMonth(y, m) ==
    IF m = 2 THEN (IF IsLeap(y) THEN 29 ELSE 28)
    ELSE IF m \in {4, 6, 9, 11} THEN 30 ELSE 31

\* days from the first of January of year y to the first of month m
RECURSIVE DaysBeforeMonth(_, _)
DaysBeforeMonth(y, m) ==
    IF m = 1 THEN 0 ELSE DaysBeforeMonth(y, m - 1) + DaysInMonth(y, m - 1)

\* days from the first of January of the epoch year to the first of January of y
RECURSIVE DaysBeforeYear(_)
DaysBeforeYear(y) ==
    IF y = Epoch.year THEN 0
    ELSE IF y > Epoch.year
         THEN DaysBeforeYear(y - 1) + (IF IsLeap(y - 1) THEN 366 ELSE 365)
         ELSE DaysBeforeYear(y + 1) - (IF IsLeap(y) THEN 366 ELSE 365)

\* the day number (days since the epoch date) of a calendar date
DayNumber(y, m, d) ==
    DaysBeforeYear(y) + DaysBeforeMonth(y, m) + (d - 1)
    - (DaysBeforeMonth(Epoch.year, Epoch.month) + (Epoch.day - 1))

\* datetime.year / datetime.month of the day with this day number
YearOfDay(n) ==
    CHOOSE y \in (Epoch.year - 1)..(Epoch.year + 1) :
        DayNumber(y, 1, 1) <= n /\ n < DayNumber(y + 1, 1, 1)

MonthOfDay(n) ==
    LET y == YearOfDay(n)
    IN  CHOOSE m \in 1..12 :
            /\ DayNumber(y, m, 1) <= n
            /\ n < DayNumber(y, m, 1) + DaysInMonth(y, m)

\* the day a datetime (in ticks) falls on: what strftime("%Y-%m-%d") keeps
DayOf(dt) == dt \div TicksPerDay

\* datetime.strptime(date, "%Y-%m-%d"), localized to UTC: midnight of that day
Strptime(date) == date * TicksPerDay

\* timedelta(days=n) in ticks
Days(n) == n * TicksPerDay

\* ---------------------------------------------------------- time windowing
\* str.lower() on one character
Lower(c) ==
    IF c = "S" THEN "s" ELSE IF c = "M" THEN "m"
    ELSE IF c = "H" THEN "h" ELSE IF c = "D" THEN "d" ELSE c

Digits == <<"0", "1", "2", "3", "4", "5", "6", "7", "8", "9">>

IsDigit(c) == \E i \in 1..10 : Digits[i] = c

DigitValue(c) == (CHOOSE i \in 1..10 : Digits[i] = c) - 1

\* int(s) of a character sequence; -1 stands for the ValueError
RECURSIVE ParseInt(_)
ParseInt(s) ==
    IF Len(s) = 0 \/ \E i \in 1..Len(s) : ~IsDigit(s[i]) THEN -1
    ELSE IF Len(s) = 1 THEN DigitValue(s[1])
    ELSE ParseInt(SubSeq(s, 1, Len(s) - 1)) * 10 + DigitValue(s[Len(s)])

\* s.split(c)[0]: the part of s before the first occurrence of c
SplitHead(s, c) ==
    LET first == CHOOSE i \in 1..Len(s) :
                     s[i] = c /\ \A j \in 1..(i - 1) : s[j] # c
    IN  SubSeq(s, 1, first - 1)

Contains(s, c) == \E i \in 1..Len(s) : s[i] = c

\* timedelta_from_str: the timedelta in seconds, -1 when the label cannot be
\* parsed (ValueError, from the final else or from int())
timedelta_from_str(timeframe) ==
    LET tf == [i \in 1..Len(timeframe) |-> Lower(timeframe[i])]
        qty(u) == ParseInt(SplitHead(tf, u))
    IN  IF Contains(tf, "s") THEN qty("s")
        ELSE IF Contains(tf, "m")
             THEN (IF qty("m") < 0 THEN -1 ELSE qty("m") * 60)
        ELSE IF Contains(tf, "h")
             THEN (IF qty("h") < 0 THEN -1 ELSE qty("h") * 3600)
        ELSE IF Contains(tf, "d")
             THEN (IF qty("d") < 0 THEN -1 ELSE qty("d") * 86400)
        ELSE -1

\* timedelta(hours=1) and timedelta(days=1) in seconds
OneHour == 60 * 60
OneDay == 24 * OneHour

\* _period_start: the first of January (td >= 1 day), the first of the month
\* (td >= 1 hour), else the datetime unchanged
_period_start(td, start_dt) ==
    LET n == DayOf(start_dt)
    IN  IF td >= OneDay THEN Strptime(DayNumber(YearOfDay(n), 1, 1))
        ELSE IF td >= OneHour
             THEN Strptime(DayNumber(YearOfDay(n), MonthOfDay(n), 1))
        ELSE start_dt

\* _timestep_from_timedelta: the window length, in ticks
_timestep_from_timedelta(td) ==
    IF td >= OneDay THEN Days(31)
    ELSE IF td >= OneHour THEN Days(31)
    ELSE Days(1)

\* ------------------------------------------------------- partition naming
CANDLES == "candles"
TRADES == "trades"
FUNDING == "funding"

\* symbols and timeframe labels are character sequences
SymA == <<"B", "/", "U">>
SymB == <<"E", ":", "U">>
Tf1m == <<"1", "m">>
Tf1h == <<"1", "h">>
Tf1d == <<"1", "d">>
Tf1w == <<"1", "w">>

\* STR_CONVERSIONS applied to one character
Convert(c) ==
    IF c = "/" THEN <<"%", "2", "F">>
    ELSE IF c = ":" THEN <<"%", "3", "A">>
    ELSE <<c>>

\* format_str: "/" becomes "%2F", then ":" becomes "%3A" (neither replacement
\* produces a character the other one replaces)
RECURSIVE format_str(_)
format_str(s) ==
    IF Len(s) = 0 THEN <<>> ELSE Convert(Head(s)) \o format_str(Tail(s))

\* str.replace(old, new): every occurrence, left to right, without overlap
RECURSIVE Replace(_, _, _)
Replace(s, old, new) ==
    IF Len(s) < Len(old) THEN s
    ELSE IF SubSeq(s, 1, Len(old)) = old
         THEN new \o Replace(SubSeq(s, Len(old) + 1, Len(s)), old, new)
         ELSE <<Head(s)>> \o Replace(Tail(s), old, new)

\* unformat_str: "%2F" becomes "/", then "%3A" becomes ":" (the reversed map,
\* in the order of STR_CONVERSIONS)
unformat_str(s) ==
    Replace(Replace(s, <<"%", "2", "F">>, <<"/">>), <<"%", "3", "A">>, <<":">>)

\* filename_builder for start_dt "*": a glob pattern, never marked
filename_pattern(symbol, data_type, data_type_id) ==
    [dtid |-> data_type_id, kind |-> data_type, date |-> <<"*">>,
     sym |-> format_str(symbol), inc |-> 0]

\* variant: a name without the data type
filename_builder_untyped(start_dt, symbol, data_type, window_length, data_type_id, clock) ==
    [dtid |-> data_type_id, kind |-> "", date |-> DayOf(start_dt),
     sym |-> format_str(symbol),
     inc |-> IF start_dt < clock /\ clock < start_dt + window_length THEN 1 ELSE 0]

\* variant: a marker test that is inclusive at the window start
filename_builder_inclusive(start_dt, symbol, data_type, window_length, data_type_id, clock) ==
    [dtid |-> data_type_id, kind |-> data_type, date |-> DayOf(start_dt),
     sym |-> format_str(symbol),
     inc |-> IF start_dt <= clock /\ clock < start_dt + window_length THEN 1 ELSE 0]

\* filename_builder for a datetime start_dt: the name's parts; inc counts the
\* "_incomplete" markers in the name
filename_builder(start_dt, symbol, data_type, window_length, data_type_id, clock) ==
    [dtid |-> data_type_id,
     kind |-> data_type,
     date |-> DayOf(start_dt),
     sym  |-> format_str(symbol),
     inc  |-> IF start_dt < clock /\ clock < start_dt + window_length
              THEN 1 ELSE 0]

\* "_incomplete.parquet".join(filename.split(".parquet")): one more marker
IncompleteSibling(filename) == [filename EXCEPT !.inc = @ + 1]

\* variant: a test that finds the marker in every path
AnyNameIncomplete(filename) == TRUE

\* the test "incomplete" in filename
HasIncomplete(filename) == filename.inc > 0

\* ------------------------------------------------------------------ state
VARIABLES
    now,      \* the wall clock in UTC (datetime.utcnow()), in ticks
    disk,     \* the download directory: file name -> the rows of the file
    meta,     \* for each file on disk, the window and the clocks of the task that wrote it
    cfg,      \* the data types, symbols, candle timeframe and date ranges of the calls
    prov,     \* the provider: its upstream data set and how it reads "since"
    phase,    \* download_async: "idle", "markets" (awaiting load_markets),
              \* "collect" (building the task list), "gather"
    range,    \* start_dt and end_dt of the call in progress
    pipe,     \* the (data type, symbol) pair whose method is being called, and its cursor
    tasks,    \* the task list of the call in progress
    run,      \* bookkeeping of the call in progress
    prev,     \* bookkeeping of the last completed call
    loaded,   \* the last load_data call: its query and what it returned
    call      \* the last direct call of a utility function: arguments and result

vars == <<now, disk, meta, cfg, prov, phase, range, pipe, tasks, run, prev, loaded, call>>

\* no utility function has been called
NoCall == [fn |-> "none"]

EmptyFn == [x \in {} |-> <<>>]

\* f with x mapped to v (x added to the domain when new)
Put(f, x, v) == [y \in DOMAIN f \cup {x} |-> IF y = x THEN v ELSE f[y]]

\* f without x
Drop(f, x) == [y \in DOMAIN f \ {x} |-> f[y]]

\* os.path.exists
Exists(d, filename) == filename \in DOMAIN d

\* ---------------------------------------------------------------- inputs
\* start_dt and end_dt of a call; Days(-3) is the last day of February
FromFebruary == [start |-> Days(-3), end |-> 1]
HalfDay == [start |-> 0, end |-> 1]
FromNoon == [start |-> 1, end |-> Days(1) + 1]
OverMidnight == [start |-> 0, end |-> Days(1) + 1]

\* the data types, symbols, candle timeframe and date ranges of a behaviour's calls
\* download's limiter: AsyncLimiter(max_rate=100, time_period=30)
DefaultRate == 100

\* a caller's arguments: the exchange is given by name, as a client instance
\* or as something else; the call is made through download (asyncio.run) or
\* by awaiting download_async; calls is the number of calls the caller makes;
\* faulty tells whether the provider may raise during the call; max_rate is the
\* limiter's rate per period (one tick of the clock); utcoffset is the time
\* zone of the machine, in ticks east of UTC
Config(kinds, syms, tf, ranges) ==
    [kinds |-> kinds, syms |-> syms, tf |-> tf, ranges |-> ranges,
     exchange |-> "instance", entry |-> "download", calls |-> MaxRuns, faulty |-> FALSE,
     max_rate |-> DefaultRate, utcoffset |-> 0]

Configs ==
    { [Config(<<CANDLES>>, <<SymA>>, Tf1m, {HalfDay, FromNoon}) EXCEPT !.utcoffset = z] :
         z \in (-MaxOffset)..MaxOffset }
    \cup
    { [Config(<<CANDLES>>, <<SymA>>, Tf1m, {HalfDay, FromNoon})
          EXCEPT !.entry = "download_async"] }
    \cup
    { Config(<<CANDLES>>, <<SymA>>, Tf1h, {FromFebruary, HalfDay}),
      Config(<<CANDLES>>, <<SymA>>, Tf1d, {HalfDay}),
      Config(<<TRADES, FUNDING>>, <<SymB>>, Tf1m, {HalfDay, FromNoon}),
      [Config(<<TRADES, CANDLES>>, <<SymB>>, Tf1w, {HalfDay}) EXCEPT !.calls = 1],
      [Config(<<FUNDING>>, <<SymA, SymB>>, Tf1m, {HalfDay}) EXCEPT !.calls = 1],
      [Config(<<TRADES>>, <<SymB>>, Tf1m, {HalfDay})
          EXCEPT !.calls = 1, !.exchange = "other"] }
    \cup { [Config(<<TRADES, FUNDING>>, <<SymB>>, Tf1m, {HalfDay})
               EXCEPT !.calls = 1, !.faulty = TRUE, !.entry = e] :
            e \in {"download", "download_async"} }
    \cup { [Config(<<TRADES, FUNDING>>, <<SymB>>, Tf1m, {HalfDay})
               EXCEPT !.calls = 1, !.entry = "download_async", !.max_rate = SmallRate] }
    \cup { [Config(<<k>>, <<SymB>>, Tf1m, {HalfDay, OverMidnight})
               EXCEPT !.calls = 1, !.entry = "direct", !.faulty = (k = FUNDING)] :
            k \in {TRADES, FUNDING} }

\* ---------------------------------------------------------- the date walk
\* the timeframe's timedelta; trades and funding take no timeframe
Td(kind) == IF kind = CANDLES THEN timedelta_from_str(cfg.tf) ELSE 0

\* the first cursor of candles / trades / funding
FirstCursor(kind, start_dt) ==
    IF kind = CANDLES THEN _period_start(Td(kind), start_dt) ELSE start_dt

\* the window length passed to the helper
Timestep(kind) ==
    IF kind = CANDLES THEN _timestep_from_timedelta(Td(kind)) ELSE Days(1)

\* variant: a walk that steps backwards in time
NextCursorBackwards(kind, current_dt) == current_dt - Days(1)

\* "walk forwards in time"
NextCursor(kind, current_dt) ==
    IF kind = CANDLES THEN _period_start(Td(kind), current_dt + Timestep(kind))
    ELSE current_dt + Days(1)

\* the pipelines of a call, data types outermost
NumPipes == Len(cfg.kinds) * Len(cfg.syms)
PipeKind(p) == cfg.kinds[((p - 1) \div Len(cfg.syms)) + 1]
PipeSym(p) == cfg.syms[((p - 1) % Len(cfg.syms)) + 1]

\* the number of windows one method call schedules, counted up to fuel + 1
RECURSIVE WalkCount(_, _, _, _)
WalkCount(kind, current_dt, end_dt, fuel) ==
    IF ~(current_dt < end_dt) THEN 0
    ELSE IF fuel = 0 THEN 1
    ELSE 1 + WalkCount(kind, NextCursor(kind, current_dt), end_dt, fuel - 1)

RECURSIVE TasksNeeded(_, _)
TasksNeeded(r, p) ==
    IF p > NumPipes THEN 0
    ELSE WalkCount(PipeKind(p), FirstCursor(PipeKind(p), r.start), r.end, MaxTasks)
         + TasksNeeded(r, p + 1)

\* a walk whose cursor never moves schedules windows without end
Endless(r) ==
    \E p \in 1..NumPipes :
        LET c == FirstCursor(PipeKind(p), r.start)
        IN  c < r.end /\ ~(NextCursor(PipeKind(p), c) > c)

\* ------------------------------------------------------------ the provider
\* Timestamps are in milliseconds. A timestamp is counted in steps of which
\* Fine make one tick of the clock: step 0 of a tick is the tick's instant and
\* step k is k milliseconds after it. The upstream records lie on ticks, so
\* the "+ 1" of the page loop is the only step off a tick that is ever taken
Fine == 2

\* int(start_dt.timestamp() * 1000)
Timestamp(dt) == dt * Fine

\* the tick a timestamp lies in, and its milliseconds past that tick
TickOf(ts) == ts \div Fine
MsOf(ts) == ts % Fine

\* variant: a limit rounded up before the one is added
CandleLimitCeil(end_ts, current_ts, td) ==
    LET seconds == (TickOf(end_ts) - TickOf(current_ts)) * (OneDay \div TicksPerDay)
        ms == MsOf(end_ts) - MsOf(current_ts)
        whole == seconds \div td
    IN  (IF seconds % td = 0 /\ ms <= 0 THEN whole ELSE whole + 1) + 1

\* the limit of a candle page: int((end_ts - current_ts) / timeframe_ms) + 1
\* for current_ts < end_ts. The difference is whole seconds plus less than a
\* second of milliseconds, and the timeframe is whole seconds, so the quotient
\* of the seconds is the quotient of the milliseconds, less one when the
\* seconds divide evenly and the milliseconds fall short
CandleLimit(end_ts, current_ts, td) ==
    LET seconds == (TickOf(end_ts) - TickOf(current_ts)) * (OneDay \div TicksPerDay)
        ms == MsOf(end_ts) - MsOf(current_ts)
        whole == seconds \div td
    IN  (IF seconds % td = 0 /\ ms < 0 THEN whole - 1 ELSE whole) + 1

\* the request a window task sends: fetch_ohlcv(symbol, timeframe, since, limit),
\* fetch_trades(symbol, since, limit=1000), fetch_funding_rate_history(symbol, since)
Request(t) ==
    [kind |-> t.kind, sym |-> t.sym, tf |-> t.tf, since |-> t.cur,
     limit |-> IF t.kind = CANDLES
               THEN CandleLimit(Timestamp(t.start + t.wlen), t.cur,
                                timedelta_from_str(t.tf))
               ELSE IF t.kind = TRADES THEN 1000 ELSE 0]

\* the records of S in ascending order
RECURSIVE Ascending(_)
Ascending(S) ==
    IF S = {} THEN <<>>
    ELSE LET least == CHOOSE x \in S : \A y \in S : x <= y
         IN  <<least>> \o Ascending(S \ {least})

\* the first n elements of a sequence
Take(q, n) == SubSeq(q, 1, IF n < Len(q) THEN n ELSE Len(q))

\* the records with the timestamps of sequence q, in its order; a timestamp
\* in twins carries two records
RECURSIVE Twice(_, _)
Twice(q, twins) ==
    IF Len(q) = 0 THEN <<>>
    ELSE (IF Head(q) \in twins THEN <<Head(q), Head(q)>> ELSE <<Head(q)>>)
         \o Twice(Tail(q), twins)

\* the records with a timestamp in S, oldest first
Upstream(S, twins) == Twice(Ascending(S), twins)

\* the providers: each serves an upstream data set (the ticks of the records;
\* those in twins carry two records) in pages of at most size records, oldest
\* first; one that honours "since" returns the records from "since" on, one
\* that ignores it the oldest it has. A page size below MaxPage is listed
\* where it changes the pages served: for a provider that honours "since" and
\* has more records than a page holds (one that ignores "since" serves its
\* first page over and over, as the provider with only those records does);
\* a repeated timestamp is listed where a page can end between its records
Providers ==
    { p \in [honours : BOOLEAN, size : 1..MaxPage,
             data : SUBSET ((-1)..MaxTs), twins : SUBSET ((-1)..MaxTs)] :
         /\ p.twins \subseteq p.data
         /\ Cardinality(p.data) + Cardinality(p.twins) <= MaxData
         /\ \/ p.size = MaxPage /\ p.twins = {}
            \/ p.honours /\ p.size < Cardinality(p.data) + Cardinality(p.twins) }

\* the page returned for a request, cut to the request's limit when it has one
Page(req) ==
    LET from == IF prov.honours THEN {dt \in prov.data : Timestamp(dt) >= req.since}
                ELSE prov.data
        size == IF req.limit > 0 /\ req.limit < prov.size THEN req.limit ELSE prov.size
        served == Take(Upstream(from, prov.twins), size)
    IN  [k \in 1..Len(served) |-> Timestamp(served[k])]

\* variant: a cursor set to the last record's timestamp itself
StayAtLast(data, current_ts) ==
    IF Len(data) < 1 THEN current_ts ELSE data[Len(data)]

\* the cursor after a page: unchanged by an empty page (the loop breaks), else
\* "current_ts = data[-1][0] + 1"
Advance(data, current_ts) ==
    IF Len(data) < 1 THEN current_ts ELSE data[Len(data)] + 1

\* between calls the upstream changes (new records, expired history, an outage)
ProviderChange ==
    /\ phase = "idle"
    /\ 0 < run.n /\ run.n < cfg.calls
    /\ \E p \in Providers : p # prov /\ prov' = p
    /\ prev' = [prev EXCEPT !.sameProvider = FALSE]
    /\ UNCHANGED <<now, disk, meta, cfg, phase, range, pipe, tasks, run, loaded, call>>

\* --------------------------------------------------------- download_async
\* the limiter's level: the permits taken in the current period, per limiter
\* object; index 0 is the rate_limiter argument of download_async
NoPermits == [k \in 0..MaxTasks |-> 0]

\* an exchange name is instantiated, a client instance is taken as it is, and
\* anything else is refused
ValidExchange(exchange) == exchange \in {"name", "instance"}

\* download_async from its first line to "await exchange.load_markets()":
\* the exchange check, then the market request is sent
download_async(start_dt, end_dt) ==
    /\ phase = "idle"
    /\ run.n < cfg.calls
    /\ \E r \in {[start |-> start_dt, end |-> end_dt]} :
          /\ Endless(r) \/ TasksNeeded(r, 1) <= MaxTasks
          /\ range' = r
    /\ pipe' = [p |-> 1, entered |-> FALSE, cursor |-> 0]
    /\ tasks' = <<>>
    /\ IF ValidExchange(cfg.exchange)
       THEN /\ phase' = "markets"
            /\ run' = [n |-> run.n + 1, clock |-> now, writes |-> 0,
                       error |-> "none", markets |-> TRUE,
                       level |-> NoPermits, issued |-> 0]
       ELSE /\ phase' = "idle"
            /\ run' = [n |-> run.n + 1, clock |-> now, writes |-> 0,
                       error |-> "exchange", markets |-> FALSE,
                       level |-> NoPermits, issued |-> 0]
    /\ UNCHANGED <<now, disk, meta, cfg, prov, prev, loaded, call>>

\* "Prevent future end date": end_date = min(end_date, now)
PreventFuture(end_date, clock) == IF end_date < clock THEN end_date ELSE clock

\* datetime.now(): the machine's local wall time, without a time zone
LocalNow(clock) == clock + cfg.utcoffset

\* download: the end date is cut to the local wall time read as if it were
\* UTC, pytz.utc.localize(datetime.now()); then asyncio.run(download_async)
Download(r) ==
    /\ cfg.entry = "download"
    /\ download_async(r.start, PreventFuture(r.end, LocalNow(now)))

\* download_async awaited by the caller in the caller's own event loop
DownloadAsync(r) ==
    /\ cfg.entry = "download_async"
    /\ download_async(r.start, r.end)

\* load_markets returns: the download directory is made and the task list begun
MarketsLoaded ==
    /\ phase = "markets"
    /\ phase' = "collect"
    /\ UNCHANGED <<now, disk, meta, cfg, prov, range, pipe, tasks, run, prev, loaded, call>>

\* load_markets raises: the exception leaves download_async before any task
\* is collected
MarketsRaise ==
    /\ phase = "markets"
    /\ cfg.faulty
    /\ phase' = "idle"
    /\ run' = [run EXCEPT !.error = "markets"]
    /\ UNCHANGED <<now, disk, meta, cfg, prov, range, pipe, tasks, prev, loaded, call>>

\* candles / trades / funding called by the user, without a tasks list
\* (tasks=None): no market load, no exchange check
MethodCall(r) ==
    /\ phase = "idle"
    /\ cfg.entry = "direct"
    /\ run.n < cfg.calls
    /\ range' = r
    /\ pipe' = [p |-> 1, entered |-> FALSE, cursor |-> 0]
    /\ tasks' = <<>>
    /\ phase' = "collect"
    /\ run' = [n |-> run.n + 1, clock |-> now, writes |-> 0,
               error |-> "none", markets |-> FALSE,
               level |-> NoPermits, issued |-> 0]
    /\ UNCHANGED <<now, disk, meta, cfg, prov, prev, loaded, call>>

\* candles / trades / funding up to their loop
MethodEntry ==
    /\ phase = "collect"
    /\ pipe.p <= NumPipes
    /\ ~pipe.entered
    /\ IF PipeKind(pipe.p) = CANDLES /\ Td(CANDLES) < 0
       THEN \* timedelta_from_str raises ValueError out of download_async; the
            \* coroutines collected so far are never awaited
            /\ phase' = "idle"
            /\ run' = [run EXCEPT !.error = "timeframe"]
            /\ UNCHANGED pipe
       ELSE /\ pipe' = [pipe EXCEPT !.entered = TRUE,
                                    !.cursor = FirstCursor(PipeKind(pipe.p), range.start)]
            /\ UNCHANGED <<phase, run>>
    /\ UNCHANGED <<now, disk, meta, cfg, prov, range, tasks, prev, loaded, call>>

\* the coroutine of one window, as the helper's arguments and its position
NewTask(kind, symbol, start_dt) ==
    [kind |-> kind, sym |-> symbol,
     tf |-> IF kind = CANDLES THEN cfg.tf ELSE <<>>,
     start |-> start_dt, wlen |-> Timestep(kind), pipe |-> pipe.p,
     pc |-> "new", filename |-> <<>>, open |-> FALSE, supersedes |-> FALSE,
     cur |-> 0, acc |-> <<>>, calls |-> 0, df |-> <<>>]

\* one turn of the method's while loop: append the window's coroutine and walk
\* forwards in time
WalkStep ==
    /\ phase = "collect"
    /\ pipe.entered
    /\ pipe.cursor < range.end
    /\ Len(tasks) < MaxTasks
    /\ tasks' = Append(tasks, NewTask(PipeKind(pipe.p), PipeSym(pipe.p), pipe.cursor))
    /\ IF cfg.entry = "direct"
       THEN \* tasks is None: "return await coro"
            /\ phase' = "await"
            /\ UNCHANGED pipe
       ELSE /\ pipe' = [pipe EXCEPT !.cursor = NextCursor(PipeKind(pipe.p), pipe.cursor)]
            /\ UNCHANGED phase
    /\ UNCHANGED <<now, disk, meta, cfg, prov, range, run, prev, loaded, call>>

\* the loop ends and the method returns the task list; after the last method
\* download_async reaches asyncio.gather
MethodReturn ==
    /\ phase = "collect"
    /\ pipe.entered
    /\ ~(pipe.cursor < range.end)
    /\ pipe' = [pipe EXCEPT !.p = @ + 1, !.entered = FALSE]
    /\ phase' = IF pipe.p = NumPipes THEN "gather" ELSE "collect"
    /\ UNCHANGED <<now, disk, meta, cfg, prov, range, tasks, run, prev, loaded, call>>

\* the window tasks run while download_async awaits asyncio.gather, and go on
\* running in the caller's event loop when gather has raised
Running == phase \in {"gather", "detached", "await"}

\* variant: a check that never skips
AlwaysProceed(d, filename) == TRUE

\* ------------------------------------------------------- the window task
\* _check_to_proceed: whether to fetch, and the disk it leaves
CheckProceed(d, filename) == ~(Exists(d, filename) /\ ~HasIncomplete(filename))

\* variant: a check that leaves the sibling in place
KeepSibling(d, filename) == d

CheckDisk(d, filename) ==
    IF Exists(d, IncompleteSibling(filename))
    THEN Drop(d, IncompleteSibling(filename)) ELSE d

\* variant: a limiter of its own for every pipeline
LimiterPerPipeline(t) == t.pipe

\* the limiter a helper acquires: the one rate_limiter object that
\* download_async passes to every method and every method to every helper
Limiter(t) == 0

\* "async with rate_limiter": the call is admitted while the limiter's level
\* is below max_rate, and raises the level by one
Admits(level, t) == level[Limiter(t)] < cfg.max_rate
Acquire(level, t) == [level EXCEPT ![Limiter(t)] = @ + 1]

\* a helper at the head of a turn of its page loop, having received calls
\* pages: admitted by the limiter it sends its request without giving way
\* ("flight"), else it waits at the limiter ("wait"); a helper that has
\* received MaxCalls pages is followed no further
Sends(level, t, calls) == calls < MaxCalls /\ Admits(level, t)

\* gather starts the tasks in list order, and each runs to its first await
\* before a reply to any request arrives
AllStarted == \A j \in 1..Len(tasks) : tasks[j].pc # "new"

\* the helper from its first line to its first await (or its return when the
\* data already exist)
TaskStart(i) ==
    /\ Running
    /\ tasks[i].pc = "new"
    /\ \A j \in 1..(i - 1) : tasks[j].pc # "new"
    /\ \E t \in {tasks[i]} :
       \E filename \in {filename_builder(t.start, t.sym, t.kind, t.wlen, t.tf, now)} :
       \E proceed \in {CheckProceed(disk, filename)} :
       \E sends \in {proceed /\ Sends(run.level, t, 0)} :
          /\ disk' = CheckDisk(disk, filename)
          /\ meta' = [f \in DOMAIN disk' |-> meta[f]]
          /\ tasks' = [tasks EXCEPT ![i] =
                [t EXCEPT !.pc = IF ~proceed THEN "done"
                                 ELSE IF sends THEN "flight" ELSE "wait",
                          !.filename = filename,
                          !.open = t.start < now /\ now < t.start + t.wlen,
                          !.supersedes =
                              /\ Exists(disk, IncompleteSibling(filename))
                              /\ meta[IncompleteSibling(filename)].start = t.start
                              /\ meta[IncompleteSibling(filename)].wlen = t.wlen
                              /\ t.start + t.wlen <= now,
                          !.cur = Timestamp(t.start)]]
          /\ run' = IF sends
                    THEN [run EXCEPT !.level = Acquire(run.level, t), !.issued = @ + 1]
                    ELSE run
    /\ UNCHANGED <<now, cfg, prov, phase, range, pipe, prev, loaded, call>>

\* a helper waiting at the limiter is admitted and sends its request
Acquired(i) ==
    /\ Running
    /\ AllStarted
    /\ tasks[i].pc = "wait"
    /\ Sends(run.level, tasks[i], tasks[i].calls)
    /\ tasks' = [tasks EXCEPT ![i].pc = "flight"]
    /\ run' = [run EXCEPT !.level = Acquire(run.level, tasks[i]), !.issued = @ + 1]
    /\ UNCHANGED <<now, disk, meta, cfg, prov, phase, range, pipe, prev, loaded, call>>

\* variant: a filter that keeps the end of the window
InWindowClosed(start_ts, end_ts, ts) == start_ts <= ts /\ ts <= end_ts

\* the rows kept by the window filter
InWindow(start_ts, end_ts, ts) == start_ts <= ts /\ ts < end_ts

\* the "symbol" field of the records the provider returns for a request: the
\* unified symbol that was asked for
ProviderSymbol(symbol) == symbol

\* the table written: the filtered records. A candle has no symbol and the
\* helper sets the column to its own argument; trades and funding rates keep
\* the symbol field of the provider's records
Table(t, records) ==
    LET keep(ts) == InWindow(Timestamp(t.start), Timestamp(t.start + t.wlen), ts)
        kept == SelectSeq(records, keep)
        symbol == IF t.kind = CANDLES THEN t.sym ELSE ProviderSymbol(t.sym)
    IN  [k \in 1..Len(kept) |-> [ts |-> kept[k], sym |-> symbol]]

\* variant: a helper without the empty check
WriteAlways(df) == TRUE

\* a table is written unless it has no rows ("if len(df) == 0: ... return")
ShouldWrite(df) == Len(df) # 0

\* the reply to the request of task i arrives: the rest of the loop's turn,
\* then either the next turn up to its await or, when the loop ends, the rest
\* of the helper (filter, empty check, to_parquet), which awaits nothing
FetchPage(i) ==
    /\ Running
    /\ AllStarted
    /\ tasks[i].pc = "flight"
    /\ \E t \in {tasks[i]} :
       \E data \in {Page(Request(t))} :
       \E current_ts \in {Advance(data, t.cur)} :
       \E ends \in {Len(data) < 1 \/ ~(current_ts < Timestamp(t.start + t.wlen))} :
       \E df \in {IF ends THEN Table(t, t.acc \o data) ELSE <<>>} :
       \E sends \in {~ends /\ Sends(run.level, t, t.calls + 1)} :
          /\ tasks' = [tasks EXCEPT ![i] =
                          [t EXCEPT !.pc = IF ends THEN "done"
                                           ELSE IF sends THEN "flight" ELSE "wait",
                                    !.acc = IF ends THEN <<>> ELSE t.acc \o data,
                                    !.cur = current_ts,
                                    !.calls = @ + 1,
                                    !.df = df]]
          /\ IF ends /\ ShouldWrite(df)
             THEN /\ disk' = Put(disk, t.filename, df)
                  /\ meta' = Put(meta, t.filename,
                                 [start |-> t.start, wlen |-> t.wlen, open |-> t.open,
                                  live |-> t.start < now /\ now < t.start + t.wlen,
                                  dropped |-> Len(df) < Len(t.acc \o data),
                                  readable |-> TRUE])
             ELSE UNCHANGED <<disk, meta>>
          /\ run' = [run EXCEPT !.writes = IF ends /\ ShouldWrite(df) THEN @ + 1 ELSE @,
                                !.level = IF sends THEN Acquire(run.level, t) ELSE @,
                                !.issued = IF sends THEN @ + 1 ELSE @]
    /\ UNCHANGED <<now, cfg, prov, phase, range, pipe, prev, loaded, call>>

\* the request of task i is answered by an exception, which leaves the helper
ProviderRaises(i) ==
    /\ Running
    /\ AllStarted
    /\ cfg.faulty
    /\ tasks[i].pc = "flight"
    /\ tasks' = [tasks EXCEPT ![i].pc = "raised"]
    /\ run' = [run EXCEPT !.error = "provider"]
    /\ UNCHANGED <<now, disk, meta, cfg, prov, phase, range, pipe, prev, loaded, call>>

\* asyncio.gather (return_exceptions left False) raises the first exception
\* into download_async, which ends without closing the exchange. Under
\* download, asyncio.run then cancels every task still pending; awaited in
\* the caller's own loop, the other tasks go on running
GatherRaises ==
    /\ phase = "gather"
    /\ run.error = "provider"
    /\ IF cfg.entry = "download"
       THEN /\ phase' = "idle"
            /\ tasks' = [i \in 1..Len(tasks) |->
                            IF tasks[i].pc \in {"wait", "flight"}
                            THEN [tasks[i] EXCEPT !.pc = "cancelled"] ELSE tasks[i]]
       ELSE /\ phase' = "detached"
            /\ UNCHANGED tasks
    /\ UNCHANGED <<now, disk, meta, cfg, prov, range, pipe, run, prev, loaded, call>>

\* the helper awaited by a method called without a tasks list returns or
\* raises, and the method returns or raises with it
MethodAwaited ==
    /\ phase = "await"
    /\ \A i \in 1..Len(tasks) : tasks[i].pc \in {"done", "raised"}
    /\ phase' = "idle"
    /\ UNCHANGED <<now, disk, meta, cfg, prov, range, pipe, tasks, run, prev, loaded, call>>

\* asyncio.gather returns once every task has returned; the exchange is closed
GatherDone ==
    /\ phase = "gather"
    /\ \A i \in 1..Len(tasks) : tasks[i].pc = "done"
    /\ phase' = "idle"
    /\ prev' = [n |-> run.n, range |-> range, disk |-> disk, sameProvider |-> TRUE,
                rangeElapsed |-> range.end <= run.clock,
                windowsElapsed |-> \A i \in 1..Len(tasks) :
                                      tasks[i].start + tasks[i].wlen <= run.clock]
    /\ tasks' = <<>>
    /\ UNCHANGED <<now, disk, meta, cfg, prov, range, pipe, run, loaded, call>>

\* the clock advances by one tick, which is one period of the limiter (its
\* level drains); nothing reads the clock while the task list is being built
Tick ==
    /\ phase # "collect"
    /\ now < MaxNow
    /\ now' = now + 1
    /\ run' = [run EXCEPT !.level = NoPermits, !.issued = 0]
    /\ UNCHANGED <<disk, meta, cfg, prov, phase, range, pipe, tasks, prev, loaded, call>>

Init ==
    /\ now = 0
    /\ disk = EmptyFn
    /\ meta = EmptyFn
    /\ cfg \in Configs
    /\ prov \in Providers
    /\ phase = "idle"
    /\ range = [start |-> 0, end |-> 0]
    /\ pipe = [p |-> 1, entered |-> FALSE, cursor |-> 0]
    /\ tasks = <<>>
    /\ run = [n |-> 0, clock |-> 0, writes |-> 0, error |-> "none", markets |-> FALSE,
              level |-> NoPermits, issued |-> 0]
    /\ prev = [n |-> 0, range |-> [start |-> 0, end |-> 0], disk |-> EmptyFn,
               sameProvider |-> TRUE, rangeElapsed |-> FALSE, windowsElapsed |-> FALSE]
    /\ loaded = [status |-> "none"]
    /\ call = NoCall

Next ==
    \/ \E r \in cfg.ranges : Download(r)
    \/ \E r \in cfg.ranges : DownloadAsync(r)
    \/ MarketsLoaded
    \/ MarketsRaise
    \/ \E r \in cfg.ranges : MethodCall(r)
    \/ MethodEntry
    \/ WalkStep
    \/ MethodReturn
    \/ \E i \in 1..Len(tasks) : TaskStart(i)
    \/ \E i \in 1..Len(tasks) : Acquired(i)
    \/ \E i \in 1..Len(tasks) : FetchPage(i)
    \/ \E i \in 1..Len(tasks) : ProviderRaises(i)
    \/ GatherRaises
    \/ GatherDone
    \/ MethodAwaited
    \/ ProviderChange
    \/ Tick

Spec == Init /\ [][Next]_vars



\* ------------------------------------------------------------- load_data
\* generate_date_range from the aligned cursor on: the dates, and whether the
\* loop ends (it does not when a step leaves the cursor where it was)
RECURSIVE DateWalk(_, _, _, _)
DateWalk(td, timestep, current_dt, end_dt) ==
    IF ~(current_dt < end_dt) THEN [dates |-> <<>>, ends |-> TRUE]
    ELSE IF ~(_period_start(td, current_dt + timestep) > current_dt)
         THEN [dates |-> <<DayOf(current_dt)>>, ends |-> FALSE]
         ELSE LET rest == DateWalk(td, timestep,
                                   _period_start(td, current_dt + timestep), end_dt)
              IN  [dates |-> <<DayOf(current_dt)>> \o rest.dates, ends |-> rest.ends]

\* kwargs.get("data_type_id", "1m")
IdOrDefault(data_type_id) == IF data_type_id = <<>> THEN Tf1m ELSE data_type_id

generate_date_range(start_dt, end_dt, data_type, data_type_id) ==
    LET td == timedelta_from_str(IdOrDefault(data_type_id))
        timestep == IF data_type = CANDLES THEN _timestep_from_timedelta(td) ELSE Days(1)
    IN  DateWalk(td, timestep, _period_start(td, start_dt), end_dt)

\* the window length load_data passes to filename_builder
LoadWindow(data_type, data_type_id) ==
    IF data_type = CANDLES
    THEN _timestep_from_timedelta(timedelta_from_str(IdOrDefault(data_type_id)))
    ELSE Days(1)

\* glob.glob of the name built with a wildcard date: the files of the data
\* type and id whose name ends with the symbol, or any file of that data type
\* and id when the symbol is the wildcard too
Star == <<"*">>
GlobMatches(d, data_type, data_type_id, symbol) ==
    {f \in DOMAIN d :
        /\ f.kind = data_type
        /\ f.dtid = data_type_id
        /\ symbol = Star \/ (f.sym = format_str(symbol) /\ f.inc = 0)}

\* the orders in which a directory listing can return a set of files
RECURSIVE Listings(_)
Listings(S) ==
    IF S = {} THEN {<<>>}
    ELSE UNION {{<<f>> \o rest : rest \in Listings(S \ {f})} : f \in S}

\* the names built for the dates and symbols asked for, dates outermost
RECURSIVE BuiltNames(_, _, _, _)
BuiltNames(q, dates, k, clock) ==
    IF k > Len(dates) * Len(q.symbols) THEN <<>>
    ELSE <<filename_builder(Strptime(dates[((k - 1) \div Len(q.symbols)) + 1]),
                            q.symbols[((k - 1) % Len(q.symbols)) + 1],
                            q.data_type, LoadWindow(q.data_type, q.data_type_id),
                            q.data_type_id, clock)>>
         \o BuiltNames(q, dates, k + 1, clock)

\* filter: a listed file is kept once for every date string its path contains
Filter(unfiltered_files, dates) ==
    SelectSeq(unfiltered_files, LAMBDA f : \E k \in 1..Len(dates) : dates[k] = f.date)

\* the lists of one glob per symbol, concatenated
RECURSIVE GlobEach(_, _, _)
GlobEach(d, q, k) ==
    IF k > Len(q.symbols) THEN {<<>>}
    ELSE {head \o rest :
            head \in Listings(GlobMatches(d, q.data_type, q.data_type_id, q.symbols[k])),
            rest \in GlobEach(d, q, k + 1)}

\* the candidate files of a query, by the four branches of load_data
Candidates(d, q, clock) ==
    IF q.hasDates
    THEN LET date_range == generate_date_range(q.start, q.end, q.data_type,
                                               q.data_type_id).dates
         IN  IF q.hasSymbols
             THEN {BuiltNames(q, date_range, 1, clock)}
             ELSE {Filter(all_files, date_range) :
                     all_files \in Listings(GlobMatches(d, q.data_type, q.data_type_id, Star))}
    ELSE IF q.hasSymbols
         THEN GlobEach(d, q, 1)
         ELSE Listings(GlobMatches(d, q.data_type, q.data_type_id, Star))

\* "check for incomplete versions of files"
Substitute(d, files) ==
    [i \in 1..Len(files) |->
        IF HasIncomplete(files[i]) THEN files[i]
        ELSE IF Exists(d, IncompleteSibling(files[i]))
             THEN IncompleteSibling(files[i]) ELSE files[i]]

\* _df[~_df.index.duplicated(keep="first")]: the first row of each timestamp
DropDuplicateIndex(rows) ==
    SelectSeq([k \in 1..Len(rows) |-> [row |-> rows[k], k |-> k]],
              LAMBDA e : \A j \in 1..(e.k - 1) : rows[j].ts # e.row.ts)

Rows(entries) == [k \in 1..Len(entries) |-> entries[k].row]

\* the files that pd.read_parquet reads without an exception
RECURSIVE ReadFiles(_, _, _)
ReadFiles(d, m, files) ==
    IF Len(files) = 0 THEN <<>>
    ELSE (IF Exists(d, Head(files)) /\ m[Head(files)].readable
          THEN <<Head(files)>> ELSE <<>>) \o ReadFiles(d, m, Tail(files))

\* pd.concat of the tables read
RECURSIVE Concat(_, _)
Concat(d, read) ==
    IF Len(read) = 0 THEN <<>>
    ELSE Rows(DropDuplicateIndex(d[Head(read)])) \o Concat(d, Tail(read))

\* df.sort_index: the rows in ascending order of timestamp; the order of rows
\* with equal timestamps is not fixed by the (unstable) default sort
RECURSIVE SortIndex(_, _)
SortIndex(rows, left) ==
    IF left = {} THEN {<<>>}
    ELSE LET first == {i \in left : \A j \in left : rows[i].ts <= rows[j].ts}
         IN  UNION {{<<rows[i]>> \o rest : rest \in SortIndex(rows, left \ {i})} :
                      i \in first}

\* variant: a load that keeps every row
KeepAllRows(rows) == rows

\* multix[~multix.index.duplicated()]: the first row of each
\* (timestamp, symbol) pair
DropDuplicatePairs(rows) ==
    Rows(SelectSeq([k \in 1..Len(rows) |-> [row |-> rows[k], k |-> k]],
                   LAMBDA e : \A j \in 1..(e.k - 1) : rows[j] # e.row))

\* one call of load_data: it does not return when generate_date_range loops
\* for ever, raises KeyError from set_index(["symbol"]) when no table was read
\* (the frame then has no columns), and returns the cleaned table otherwise
LoadData(q) ==
    /\ phase = "idle"
    /\ loaded.status = "none"
    /\ IF q.hasDates
          /\ ~generate_date_range(q.start, q.end, q.data_type, q.data_type_id).ends
       THEN loaded' = [status |-> "hang", query |-> q, files |-> <<>>,
                       read |-> <<>>, raw |-> <<>>, rows |-> <<>>]
       ELSE \E listed \in Candidates(disk, q, now) :
            \E files \in {IF q.include_incomplete THEN Substitute(disk, listed) ELSE listed} :
            \E read \in {ReadFiles(disk, meta, files)} :
            \E raw \in {Concat(disk, read)} :
               IF Len(read) = 0
               THEN loaded' = [status |-> "KeyError", query |-> q, files |-> files,
                               read |-> read, raw |-> raw, rows |-> <<>>]
               ELSE \E sorted \in SortIndex(raw, 1..Len(raw)) :
                       loaded' = [status |-> "table", query |-> q, files |-> files,
                                  read |-> read, raw |-> raw,
                                  rows |-> DropDuplicatePairs(sorted)]
    /\ UNCHANGED <<now, disk, meta, cfg, prov, phase, range, pipe, tasks, run, prev, call>>

\* the names of files in the download directory
Names ==
    [dtid : {Tf1m}, kind : {CANDLES}, date : {0, 1}, sym : {format_str(SymA)}, inc : {0, 1}]
    \cup [dtid : {Tf1m}, kind : {CANDLES}, date : {0}, sym : {format_str(SymB)}, inc : {0}]

\* file contents: tables of at most MaxRows rows
StoredRows == {[ts |-> 0, sym |-> SymA], [ts |-> 1, sym |-> SymA], [ts |-> 1, sym |-> SymB]}
Tables == UNION {[1..n -> StoredRows] : n \in 0..MaxRows}

\* the calls of load_data
NoDates == [hasDates : {FALSE}, start : {0}, end : {0}]
TwoDays == [hasDates : {TRUE}, start : {0}, end : {Days(2)}]
NoSymbols == [hasSymbols : {FALSE}, symbols : {<<>>}]
Symbols == [hasSymbols : {TRUE}, symbols : {<<SymA>>, <<SymA, SymB>>}]
Query(id, s, r, inc) ==
    [data_type |-> CANDLES, data_type_id |-> id, hasSymbols |-> s.hasSymbols,
     symbols |-> s.symbols, hasDates |-> r.hasDates, start |-> r.start, end |-> r.end,
     include_incomplete |-> inc]
Queries ==
    {Query(Tf1m, s, r, inc) :
        s \in NoSymbols \cup Symbols, r \in NoDates \cup TwoDays, inc \in BOOLEAN}
    \cup {Query(<<>>, s, r, FALSE) :
            s \in NoSymbols \cup {[hasSymbols |-> TRUE, symbols |-> <<SymA>>]},
            r \in TwoDays}
    \cup {Query(Tf1d, [hasSymbols |-> TRUE, symbols |-> <<SymA>>], r, FALSE) :
            r \in TwoDays}

InitLoad ==
    /\ now \in 0..MaxNow
    /\ \E S \in SUBSET Names :
          /\ Cardinality(S) <= MaxFiles
          /\ disk \in [S -> Tables]
          /\ meta \in [S -> [readable : BOOLEAN]]
    /\ \A f \in DOMAIN disk : ~meta[f].readable => disk[f] = <<>>
    /\ cfg \in {c \in Configs : c.tf = Tf1m /\ c.kinds = <<CANDLES>>
                                  /\ c.entry = "download" /\ c.utcoffset = 0}
    /\ prov = [honours |-> TRUE, size |-> MaxPage, data |-> {}, twins |-> {}]
    /\ phase = "idle"
    /\ range = [start |-> 0, end |-> 0]
    /\ pipe = [p |-> 1, entered |-> FALSE, cursor |-> 0]
    /\ tasks = <<>>
    /\ run = [n |-> 0, clock |-> 0, writes |-> 0, error |-> "none", markets |-> FALSE,
              level |-> NoPermits, issued |-> 0]
    /\ prev = [n |-> 0, range |-> [start |-> 0, end |-> 0], disk |-> EmptyFn,
               sameProvider |-> TRUE, rangeElapsed |-> FALSE, windowsElapsed |-> FALSE]
    /\ loaded = [status |-> "none"]
    /\ call = NoCall

NextLoad == \E q \in Queries : LoadData(q)

SpecLoad == InitLoad /\ [][NextLoad]_vars

\* ------------------------------------------- direct calls of the utilities
Tf5h == <<"5", "h">>

\* the timeframes of a direct call
Timeframes == {Tf1m, Tf1h, Tf5h, Tf1d}

\* the head of one turn of the candle loop: the limit for current_ts
LimitCall ==
    /\ call = NoCall
    /\ \E tf \in Timeframes, end_dt \in 1..MaxSpan :
       \E end_ts \in {Timestamp(end_dt)} :
       \E current_ts \in 0..(end_ts - 1) :
          call' = [fn |-> "limit", tf |-> tf, end_ts |-> end_ts, current_ts |-> current_ts,
                   limit |-> CandleLimit(end_ts, current_ts, timedelta_from_str(tf))]
    /\ UNCHANGED <<now, disk, meta, cfg, prov, phase, range, pipe, tasks, run, prev, loaded>>

\* filename_builder called at clock now, with a datetime or with "*"
FilenameCall ==
    /\ call = NoCall
    /\ \E wild \in BOOLEAN, start_dt \in 0..MaxNow, window_length \in {Days(1), Days(31)} :
       \E data_type \in {CANDLES, TRADES} :
          call' = [fn |-> "filename_builder", wild |-> wild,
                   start_dt |-> IF wild THEN 0 ELSE start_dt,
                   window_length |-> window_length, clock |-> now,
                   name |-> IF wild THEN filename_pattern(SymA, data_type, Tf1m)
                            ELSE filename_builder(start_dt, SymA, data_type,
                                                  window_length, Tf1m, now)]
    /\ UNCHANGED <<now, disk, meta, cfg, prov, phase, range, pipe, tasks, run, prev, loaded>>

\* the characters of a symbol: the two that are escaped, those of their
\* escapes, and one more
Alphabet == {"/", ":", "%", "2", "3", "A", "F", "B"}

\* the strings of at most n characters
Strings(n) == UNION {[1..k -> Alphabet] : k \in 0..n}

\* format_str and unformat_str of its result
FormatCall ==
    /\ call = NoCall
    /\ \E s \in Strings(MaxLen) :
          call' = [fn |-> "format_str", s |-> s, formatted |-> format_str(s),
                   back |-> unformat_str(format_str(s))]
    /\ UNCHANGED <<now, disk, meta, cfg, prov, phase, range, pipe, tasks, run, prev, loaded>>

InitUtil ==
    /\ now \in 0..MaxNow
    /\ disk = EmptyFn
    /\ meta = EmptyFn
    /\ cfg = Config(<<CANDLES>>, <<SymA>>, Tf1m, {HalfDay})
    /\ prov = [honours |-> TRUE, size |-> MaxPage, data |-> {}, twins |-> {}]
    /\ phase = "idle"
    /\ range = [start |-> 0, end |-> 0]
    /\ pipe = [p |-> 1, entered |-> FALSE, cursor |-> 0]
    /\ tasks = <<>>
    /\ run = [n |-> 0, clock |-> 0, writes |-> 0, error |-> "none", markets |-> FALSE,
              level |-> NoPermits, issued |-> 0]
    /\ prev = [n |-> 0, range |-> [start |-> 0, end |-> 0], disk |-> EmptyFn,
               sameProvider |-> TRUE, rangeElapsed |-> FALSE, windowsElapsed |-> FALSE]
    /\ loaded = [status |-> "none"]
    /\ call = NoCall

NextUtil == LimitCall \/ FilenameCall \/ FormatCall

SpecUtil == InitUtil /\ [][NextUtil]_vars

\* ------------------------------------------------- properties of the fetch
\* task i is in its page loop: waiting at the limiter or for a reply
InLoop(i) == tasks[i].pc \in {"wait", "flight"}

\* the call in progress has returned from gather: every task has returned
Returned == phase = "gather" /\ \A i \in 1..Len(tasks) : tasks[i].pc = "done"

\* the call that has just returned repeats the previous call: same arguments,
\* and the provider answers every request as it did then
Repeated ==
    /\ Returned
    /\ prev.n >= 1
    /\ run.n = prev.n + 1
    /\ range = prev.range
    /\ prev.sameProvider

\* C1 as stated: when the date range had elapsed at the first call
\* (end_dt <= now), a second call with the same arguments and the same
\* provider answers writes nothing and leaves the files and their contents
\* as the first call left them.
C1_RangeElapsed ==
    (Repeated /\ prev.rangeElapsed) => (run.writes = 0 /\ disk = prev.disk)

\* C1 restated: when every window scheduled by the first call had ended when
\* that call began (start + window_length <= now for each window), a second
\* call with the same arguments and the same provider answers writes nothing
\* and leaves the files and their contents as the first call left them.
C1_WindowsElapsed ==
    (Repeated /\ prev.windowsElapsed) => (run.writes = 0 /\ disk = prev.disk)

\* a repeated call over elapsed windows has returned, and it skipped a window
\* whose file the first call had written
C1_Witness ==
    /\ Repeated
    /\ prev.windowsElapsed
    /\ prev.disk # EmptyFn
    /\ \E i \in 1..Len(tasks) :
          tasks[i].calls = 0 /\ tasks[i].filename \in DOMAIN prev.disk

\* C2: a file without the incomplete marker, once on disk, is never removed
\* and never rewritten, and no task is in its page loop for the path of an
\* existing complete file.
C2_CompleteImmutable ==
    [][ /\ \A f \in DOMAIN disk :
              f.inc = 0 => (f \in DOMAIN disk' /\ disk'[f] = disk[f])
        /\ \A i \in 1..Len(tasks') :
              tasks'[i].pc \in {"wait", "flight"} =>
                 ~(tasks'[i].filename.inc = 0 /\ tasks'[i].filename \in DOMAIN disk')
      ]_vars

\* a task for the path of an existing complete file returned without a
\* provider call
C2_Witness ==
    \E i \in 1..Len(tasks) :
       /\ tasks[i].pc = "done"
       /\ tasks[i].calls = 0
       /\ tasks[i].filename.inc = 0
       /\ tasks[i].filename \in DOMAIN disk

\* task i has returned; when it started, its window had ended and the
\* incomplete file of the same window was on disk
Superseded(i) ==
    /\ phase = "gather"
    /\ tasks[i].pc = "done"
    /\ tasks[i].supersedes

\* C3 as stated: once a window that left an incomplete file is fetched again
\* after its end, the incomplete file is gone and a complete file for the
\* window exists.
C3_CompleteExists ==
    \A i \in 1..Len(tasks) :
       Superseded(i) =>
          /\ IncompleteSibling(tasks[i].filename) \notin DOMAIN disk
          /\ tasks[i].filename \in DOMAIN disk

\* C3 restated: once a window that left an incomplete file is fetched again
\* after its end, the incomplete file is gone; if the task fetched, a complete
\* file exists exactly when the fetch returned at least one row inside the
\* window, and it then holds those rows; if the task did not fetch, the
\* complete file was already there.
C3_CompleteIfRows ==
    \A i \in 1..Len(tasks) :
       Superseded(i) =>
          /\ IncompleteSibling(tasks[i].filename) \notin DOMAIN disk
          /\ IF tasks[i].calls = 0
             THEN tasks[i].filename \in DOMAIN disk
             ELSE /\ tasks[i].filename \in DOMAIN disk <=> Len(tasks[i].df) > 0
                  /\ Len(tasks[i].df) > 0 => disk[tasks[i].filename] = tasks[i].df

\* an elapsed window was fetched again and its complete file replaced the
\* incomplete one
C3_Witness ==
    \E i \in 1..Len(tasks) :
       /\ Superseded(i)
       /\ tasks[i].calls > 0
       /\ tasks[i].filename \in DOMAIN disk
       /\ disk[tasks[i].filename] = tasks[i].df

\* C4 as stated: a file carries the incomplete marker exactly when its window
\* includes the current time at the moment it is written (the current time
\* is strictly between the window's start and its end at the write).
C4_MarkerAtWrite ==
    \A f \in DOMAIN disk : f.inc > 0 <=> meta[f].live

\* C4 restated: a file carries the incomplete marker exactly when, at the
\* moment its task started and built the file name, the current time was
\* strictly between the window's start and its end.
C4_MarkerAtTaskStart ==
    \A f \in DOMAIN disk : f.inc > 0 <=> meta[f].open

\* a file was written with the marker after its window had ended
C4_Witness ==
    \E f \in DOMAIN disk : f.inc > 0 /\ meta[f].open /\ ~meta[f].live

\* C5: every row of a written file has start <= timestamp < start +
\* window_length for the window of the task that wrote it.
C5_WindowContainment ==
    \A f \in DOMAIN disk :
       \A k \in 1..Len(disk[f]) :
          /\ Timestamp(meta[f].start) <= disk[f][k].ts
          /\ disk[f][k].ts < Timestamp(meta[f].start + meta[f].wlen)

\* a file was written from records some of which were outside the window
C5_Witness ==
    \E f \in DOMAIN disk : meta[f].dropped /\ Len(disk[f]) > 0

\* C6: no file on disk has zero rows, and a task whose table is empty leaves
\* the disk as it was when its page loop ended.
C6_NoEmptyFile ==
    [][ /\ \A f \in DOMAIN disk' : Len(disk'[f]) > 0
        /\ \A i \in 1..Len(tasks) :
              ( /\ i <= Len(tasks')
                /\ tasks[i].pc = "flight"
                /\ tasks'[i].pc = "done"
                /\ Len(tasks'[i].df) = 0 ) => disk' = disk
      ]_vars

\* a task ended with an empty table while a file was at its path, and the
\* file is still there
C6_Witness ==
    \E i \in 1..Len(tasks) :
       /\ tasks[i].pc = "done"
       /\ tasks[i].calls > 0
       /\ Len(tasks[i].df) = 0
       /\ tasks[i].filename \in DOMAIN disk

\* C7 as stated: consecutive windows scheduled for one pipeline tile the
\* range: each window's start + window_length is the next window's start.
C7_Tiling ==
    \A i \in 1..(Len(tasks) - 1) :
       tasks[i].pipe = tasks[i + 1].pipe =>
          tasks[i].start + tasks[i].wlen = tasks[i + 1].start

\* C8 as stated: every iteration of the date walk strictly increases the
\* cursor.
C8_CursorIncreases ==
    [][ WalkStep => pipe'.cursor > pipe.cursor ]_vars


\* ------------------------------------------------- properties of failures
\* C13 as stated: when the provider raises inside one pipeline, the window
\* tasks of every other pipeline of the call still run: none of them is
\* cancelled.
C13_SiblingsRun ==
    \A i, j \in 1..Len(tasks) :
       (tasks[i].pc = "raised" /\ tasks[j].pipe # tasks[i].pipe) =>
          tasks[j].pc # "cancelled"

\* C14 as stated: when an unsupported timeframe has raised out of the candle
\* pipeline, the window tasks of the other pipelines of the call have run.
C14_OthersRun ==
    (phase = "idle" /\ run.error = "timeframe") =>
       \A i \in 1..Len(tasks) : tasks[i].kind # CANDLES => tasks[i].pc = "done"

\* C15 as stated: when a configuration mistake (exchange type, timeframe
\* label) is raised, no call to the exchange client has been made, load_markets
\* included.
C15_BeforeClientCalls ==
    run.error \in {"exchange", "timeframe"} => ~run.markets

\* C24 as stated: candles, trades or funding called without a tasks list has,
\* when it returns, fetched every window of the range, not only the first.
C24_WholeRange ==
    (cfg.entry = "direct" /\ phase = "idle" /\ run.n > 0 /\ run.error = "none") =>
       /\ Len(tasks) = WalkCount(PipeKind(1), FirstCursor(PipeKind(1), range.start),
                                 range.end, MaxTasks)
       /\ \A i \in 1..Len(tasks) : tasks[i].pc = "done"

\* C27 as stated: whenever no window task is in progress, the disk holds no
\* partition both as a complete file and as an incomplete file.
C27_NeverBoth ==
    phase = "idle" =>
       \A f \in DOMAIN disk : f.inc = 0 => ~Exists(disk, IncompleteSibling(f))

\* C28 as stated: a file of daily-window data holds the window that begins at
\* 00:00 UTC of the date in its name, whatever the start instant of the call.
C28_WindowAtMidnight ==
    \A f \in DOMAIN disk :
       meta[f].wlen = Days(1) => meta[f].start = Strptime(f.date)

\* ------------------------------------------- properties of the concurrency

\* C16: in every period of the limiter, the provider calls admitted to all
\* the window tasks of a fetch call together number at most the limiter's
\* max rate: the cap is one for the whole call, not one per pipeline.
C16_GlobalCap == run.issued <= cfg.max_rate

\* the cap binds: the limiter's rate is used up in this period by a request
\* in flight while the task of another pipeline waits at the limiter
C16_Witness ==
    /\ cfg.max_rate = SmallRate
    /\ run.issued = cfg.max_rate
    /\ \E i, j \in 1..Len(tasks) :
          /\ tasks[i].pipe # tasks[j].pipe
          /\ tasks[i].pc = "flight"
          /\ tasks[j].pc = "wait"
          /\ tasks[j].calls = 0

\* tasks i and j are windows of one pipeline, i scheduled before j
Earlier(i, j) == i < j /\ tasks[i].pipe = tasks[j].pipe

\* C17 as stated: within a pipeline a window is fetched (and written) to the
\* end before the first provider call of the next window is issued.
C17_InOrder ==
    \A i, j \in 1..Len(tasks) :
       (Earlier(i, j) /\ (tasks[j].calls > 0 \/ tasks[j].pc = "flight")) =>
          tasks[i].pc \in {"done", "raised", "cancelled"}

\* C17 amended: within a pipeline the window tasks are created in the order
\* of their window starts (never a later start before an earlier one), no
\* task makes a provider call before every task of the call has been
\* created, and from then on the tasks run together.
C17_ScheduledInOrder ==
    /\ \A i, j \in 1..Len(tasks) : Earlier(i, j) => tasks[i].start <= tasks[j].start
    /\ \A i \in 1..Len(tasks) : tasks[i].pc # "new" => phase # "collect"

\* two windows of one pipeline in flight together: the later one has had a
\* page from the provider while the earlier one still waits for its first
C17_Witness ==
    \E i, j \in 1..Len(tasks) :
       /\ Earlier(i, j)
       /\ tasks[i].start < tasks[j].start
       /\ tasks[j].calls > 0
       /\ tasks[i].pc = "flight"
       /\ tasks[i].calls = 0

\* task i has run _check_to_proceed: its path is known
Started(i) == DOMAIN tasks[i].filename # {}

\* the paths a window task tests, removes or writes: its own and the
\* incomplete sibling of its own
Touched(t) == {t.filename, IncompleteSibling(t.filename)}

\* C18: within one call no two window tasks touch the same partition path,
\* whatever the interleaving of the gathered tasks.
C18_NoSharedPath ==
    \A i, j \in 1..Len(tasks) :
       (i # j /\ Started(i) /\ Started(j)) =>
          Touched(tasks[i]) \cap Touched(tasks[j]) = {}

\* two pipelines at work together on the same symbol and the same day
C18_Witness ==
    \E i, j \in 1..Len(tasks) :
       /\ tasks[i].kind # tasks[j].kind
       /\ tasks[i].sym = tasks[j].sym
       /\ tasks[i].start = tasks[j].start
       /\ tasks[i].pc = "flight"
       /\ tasks[j].pc = "flight"

\* ------------------------------------------- properties of the replacement

\* file f is an incomplete file of the window whose task writes to filename
IncompleteOf(f, filename) == f.inc > 0 /\ [f EXCEPT !.inc = 0] = [filename EXCEPT !.inc = 0]

\* task i writes its file in this step
Writes(i) ==
    /\ Len(tasks') = Len(tasks)
    /\ tasks[i].pc = "flight"
    /\ tasks'[i].pc = "done"
    /\ run'.writes = run.writes + 1

\* C19 as stated: when a window task writes its file, no incomplete file of
\* the window is on disk any more (it was removed before the write), whether
\* the window has elapsed or not.
C19_RemovedBeforeWrite ==
    [][ \A i \in 1..Len(tasks) :
           Writes(i) => \A f \in DOMAIN disk : ~IncompleteOf(f, tasks[i].filename) ]_vars

\* C19 amended: a task whose path carries no marker (its window had elapsed
\* at task start) fetches and writes with the window's incomplete file gone
\* from the disk; and an incomplete file leaves the disk in no other way than
\* at the start of such a task, so a task whose window is still open keeps
\* the old file during its fetch and writes over it in place.
C19_RemovedWhenElapsed ==
    /\ [](\A i \in 1..Len(tasks) :
            (InLoop(i) /\ tasks[i].filename.inc = 0) =>
               ~Exists(disk, IncompleteSibling(tasks[i].filename)))
    /\ [][ \A f \in DOMAIN disk :
             (f.inc > 0 /\ ~Exists(disk', f)) =>
                \E i \in 1..Len(tasks) :
                   /\ Len(tasks') = Len(tasks)
                   /\ tasks[i].pc = "new"
                   /\ tasks'[i].pc # "new"
                   /\ tasks'[i].filename.inc = 0
                   /\ f = IncompleteSibling(tasks'[i].filename) ]_vars

\* an open window fetched a second time: its incomplete file, on disk since
\* the call before, now holds the rows of the second fetch
C19_Witness ==
    \E i \in 1..Len(tasks) :
       /\ tasks[i].pc = "done"
       /\ tasks[i].filename.inc = 1
       /\ run.n = 2
       /\ Exists(prev.disk, tasks[i].filename)
       /\ Exists(disk, tasks[i].filename)
       /\ disk[tasks[i].filename] # prev.disk[tasks[i].filename]

\* ---------------------------------------------- properties of the page loop

\* task i gets the page of a provider call in this step
Call(i) ==
    /\ Len(tasks') = Len(tasks)
    /\ tasks[i].pc = "flight"
    /\ tasks'[i].calls = tasks[i].calls + 1

\* the end of task i's window as a timestamp
EndTs(i) == Timestamp(tasks[i].start + tasks[i].wlen)

\* C20: a window's page loop calls the provider only with since below end_ts;
\* a non-empty page whose last record is at or after the since requested
\* moves the cursor strictly forwards, so the next call's since is greater;
\* and the loop goes on after a call only when the page was not empty and the
\* new cursor is below end_ts, so the distance end_ts - current_ts, positive
\* at every call, shrinks with every call and the calls are finitely many.
C20_PageLoopProgress ==
    /\ [](\A i \in 1..Len(tasks) : InLoop(i) => tasks[i].cur < EndTs(i))
    /\ [][ \A i \in 1..Len(tasks) :
             Call(i) =>
                LET data == Page(Request(tasks[i]))
                IN  /\ (Len(data) > 0 /\ data[Len(data)] >= tasks[i].cur) =>
                          tasks'[i].cur > tasks[i].cur
                    /\ tasks'[i].pc \in {"wait", "flight"} <=>
                          (Len(data) > 0 /\ tasks'[i].cur < EndTs(i))
                    /\ tasks'[i].pc \in {"wait", "flight", "done"} ]_vars

\* a window fetched in two non-empty pages, the second starting one
\* millisecond after the record of the first, and ended by the cursor
\* reaching end_ts
C20_Witness ==
    \E i \in 1..Len(tasks) :
       /\ prov.honours
       /\ prov.size = 1
       /\ tasks[i].pc = "done"
       /\ tasks[i].calls = 2
       /\ Len(tasks[i].df) > 0
       /\ tasks[i].cur >= EndTs(i)

\* --------------------------------------------- properties of the utilities

\* the milliseconds from current_ts to end_ts, and the timeframe's milliseconds
SpanMs ==
    (TickOf(call.end_ts) - TickOf(call.current_ts)) * ((OneDay \div TicksPerDay) * 1000)
    + (MsOf(call.end_ts) - MsOf(call.current_ts))
TfMs == timedelta_from_str(call.tf) * 1000

\* C21 as stated: the limit is ceil((end_ts - current_ts) / timeframe) + 1,
\* whether current_ts is aligned to the timeframe or not.
C21_LimitIsCeiling ==
    call.fn = "limit" =>
       /\ (call.limit - 2) * TfMs < SpanMs
       /\ SpanMs <= (call.limit - 1) * TfMs

\* C21 amended: the limit is floor((end_ts - current_ts) / timeframe) + 1;
\* it is the claimed value when the span is a whole number of timeframes
\* and one less when it is not.
C21_LimitIsFloor ==
    call.fn = "limit" =>
       /\ (call.limit - 1) * TfMs <= SpanMs
       /\ SpanMs < call.limit * TfMs

\* a limit computed for a span that is not a whole number of timeframes
C21_Witness ==
    /\ call.fn = "limit"
    /\ SpanMs % TfMs # 0
    /\ call.limit > 1

\* C22 as stated: filename_builder marks the name as incomplete exactly when
\* start_dt <= now < start_dt + window_length, the instant now = start_dt
\* included, and never marks a wildcard name.
C22_MarkerInclusive ==
    call.fn = "filename_builder" =>
       (call.name.inc = 1 <=>
           /\ ~call.wild
           /\ call.start_dt <= call.clock
           /\ call.clock < call.start_dt + call.window_length)

\* C25 as stated: unformat_str undoes format_str on every string, also on one
\* that holds the characters of an escape, and so format_str gives distinct
\* strings distinct names.
C25_RoundTrip ==
    call.fn = "format_str" =>
       /\ call.back = call.s
       /\ \A other \in Strings(MaxLen) :
             other # call.s => format_str(other) # call.formatted

\* the rows of table df with timestamp ts
RowsAt(df, ts) == Cardinality({k \in 1..Len(df) : df[k].ts = ts})

\* C26 as stated: when the provider serves, for each call, the oldest records
\* from "since" on, a finished trades task has persisted every upstream trade
\* of its window, also the trades that share a timestamp at which a page ends.
C26_TradesComplete ==
    \A i \in 1..Len(tasks) :
       (tasks[i].kind = TRADES /\ tasks[i].pc = "done" /\ tasks[i].calls > 0
          /\ prov.honours) =>
          \A dt \in prov.data :
             InWindow(Timestamp(tasks[i].start), EndTs(i), Timestamp(dt)) =>
                /\ Exists(disk, tasks[i].filename)
                /\ RowsAt(disk[tasks[i].filename], Timestamp(dt)) =
                      IF dt \in prov.twins THEN 2 ELSE 1

\* -------------------------------------------------- properties of the load
\* C9: the table load_data returns has its rows in ascending order of
\* timestamp and no two rows with the same (timestamp, symbol) pair.
C9_SortedNoDuplicates ==
    loaded.status = "table" =>
       /\ \A j, k \in 1..Len(loaded.rows) :
             j < k => loaded.rows[j].ts <= loaded.rows[k].ts
       /\ \A j, k \in 1..Len(loaded.rows) :
             j # k => loaded.rows[j] # loaded.rows[k]

\* a table of several rows was returned from files whose rows, as read, were
\* out of order and repeated a (timestamp, symbol) pair
C9_Witness ==
    /\ loaded.status = "table"
    /\ Len(loaded.rows) >= 2
    /\ \E j, k \in 1..Len(loaded.raw) : j < k /\ loaded.raw[j].ts > loaded.raw[k].ts
    /\ \E j, k \in 1..Len(loaded.raw) : j # k /\ loaded.raw[j] = loaded.raw[k]

\* C10 as stated: when load_data reads no file (no candidate exists, or every
\* candidate is missing or unreadable), it returns a table with zero rows and
\* raises no error.
C10_EmptyTable ==
    (loaded.status \in {"table", "KeyError"} /\ Len(loaded.read) = 0) =>
       (loaded.status = "table" /\ Len(loaded.rows) = 0)

\* load_data has returned or raised: the files it tried are known
Answered == loaded.status \in {"table", "KeyError"}

\* C11 as stated: with include_incomplete false, load_data reads no file whose
\* name carries the incomplete marker, whatever the query branch and clock.
C11_NoIncompleteRead ==
    (Answered /\ ~loaded.query.include_incomplete) =>
       \A k \in 1..Len(loaded.read) : loaded.read[k].inc = 0

\* the complete, readable candle files that a fetch with the default
\* timeframe ("1m") wrote for the symbols and dates of the query
FetchedFor(q) ==
    {f \in DOMAIN disk :
        /\ f.kind = CANDLES /\ f.dtid = Tf1m /\ f.inc = 0
        /\ meta[f].readable
        /\ \E k \in 1..Len(q.symbols) : f.sym = format_str(q.symbols[k])
        /\ Strptime(f.date) >= q.start /\ Strptime(f.date) < q.end}

\* C12 as stated: a load of candles by symbols and date range that names no
\* timeframe reads the files that the default fetch wrote for those symbols
\* and dates.
C12_PathsAgree ==
    ( /\ Answered
      /\ loaded.query.data_type = CANDLES
      /\ loaded.query.data_type_id = <<>>
      /\ loaded.query.hasSymbols /\ loaded.query.hasDates ) =>
       \A f \in FetchedFor(loaded.query) :
          \E k \in 1..Len(loaded.read) : loaded.read[k] = f

\* file f of the list that load_data reads stands in for the complete path
\* that was built for its date: the name built at this clock has no marker
Substituted(f) ==
    /\ f.inc = 1
    /\ ~HasIncomplete(filename_builder(Strptime(f.date), SymA, loaded.query.data_type,
                                       LoadWindow(loaded.query.data_type,
                                                  loaded.query.data_type_id),
                                       loaded.query.data_type_id, now))

\* C23 as stated: with include_incomplete set, the incomplete sibling stands
\* in for a candidate complete path only when the complete path is not on
\* disk; a complete file that exists is the one read.
C23_CompletePreferred ==
    (Answered /\ loaded.query.include_incomplete
       /\ loaded.query.hasSymbols /\ loaded.query.hasDates) =>
       \A k \in 1..Len(loaded.files) :
          Substituted(loaded.files[k]) =>
             ~Exists(disk, [loaded.files[k] EXCEPT !.inc = 0])

====
